---- MODULE Spec2Model ----
(***************************************************************************)
(* Model of ld_flag_cleanup.py: removal of feature-flag conditionals and   *)
(* of the flag's declaration from Python sources.                          *)
(*                                                                         *)
(* A text is a sequence of characters; the alphabet is                     *)
(*   " "  "\n"          whitespace                                         *)
(*   "F"  "B"           identifier characters; the cleaned flag is the     *)
(*                      one-character identifier F, so FB, BF, BFB are     *)
(*                      other names that contain it                        *)
(*   "K"                the identifier FeatureFlag                         *)
(*   "="  "("  ")"  ":" punctuation                                        *)
(*   "if" "not" "else"  keywords                                           *)
(*   "S"                any other statement text                           *)
(* A guard  if F:  stands for  if obj.F(...):  the only shape of test the  *)
(* collector looks at is a call of an attribute, so the model's guards are *)
(* all of that shape and differ in the attribute name and the negation.    *)
(***************************************************************************)
EXTENDS Integers, Sequences, FiniteSets, TLC

VARIABLES
    source,         \* the text handed to the transform (file content)
    pc,             \* position of the run
    lines,          \* clean_flag_usage: the working list of lines
    locations,      \* clean_flag_usage: collector.locations
    k,              \* clean_flag_usage: records of reversed(locations) still to apply
    cleaned,        \* text returned by the first pass
    modified,       \* flag returned by the first pass
    cleaned2,       \* text returned by a second pass over cleaned
    modified2,      \* flag returned by the second pass
    output_lines,   \* remove_flag_definition: output_lines before the join
    disk,           \* process_directory: path -> content
    bak,            \* process_directory: path -> content of path.bak, or NoFile
    orig,           \* process_directory: path -> content when the run started
    isFlags,        \* process_directory: path -> 'feature_flags' in path.lower()
    create_backup,  \* process_directory: the create_backup argument
    idx,            \* process_directory: index of the file being processed
    total_files,    \* process_directory: total_files
    modified_files, \* process_directory: modified_files
    outcome         \* process_directory: path -> what happened in process_file

vars == <<source, pc, lines, locations, k, cleaned, modified, cleaned2, modified2,
          output_lines, disk, bak, orig, isFlags, create_backup, idx,
          total_files, modified_files, outcome>>

usageVars == <<lines, locations, k, cleaned2, modified2>>
dirVars == <<disk, bak, orig, isFlags, create_backup, idx, total_files,
             modified_files, outcome>>

----------------------------------------------------------------------------
(* Bounds *)

MaxLines == 4       \* lines typed into a usage file
MaxIndent == 2      \* deepest indentation typed, in spaces
MaxDeclLines == 4   \* lines typed into a declarations file
NumFiles == 2       \* matching files in the directory

----------------------------------------------------------------------------
(* Strings *)

Max(a, b) == IF a >= b THEN a ELSE b
Min(a, b) == IF a <= b THEN a ELSE b

IsSpace(c) == c \in {" ", "\n"}

\* s[a:b] with Python's clamping, 0 <= a
PySlice(s, a, b) == SubSeq(s, Min(a, Len(s)) + 1, Min(b, Len(s)))

\* s[a:]
PyFrom(s, a) == SubSeq(s, Min(a, Len(s)) + 1, Len(s))

\* s[a:b] = r
PySplice(s, a, b, r) ==
    LET lo == Min(a, Len(s))
        hi == Max(lo, Min(b, Len(s)))
    IN SubSeq(s, 1, lo) \o r \o SubSeq(s, hi + 1, Len(s))

\* len(line) - len(line.lstrip())
LStripLen(line) ==
    IF \A p \in 1..Len(line) : IsSpace(line[p]) THEN Len(line)
    ELSE (CHOOSE p \in 1..Len(line) :
             /\ ~IsSpace(line[p])
             /\ \A q \in 1..(p - 1) : IsSpace(line[q])) - 1

\* not line.strip()
IsBlank(line) == \A p \in 1..Len(line) : IsSpace(line[p])

get_indent(line) == SubSeq(line, 1, LStripLen(line))

RECURSIVE Join(_)
Join(ls) == IF ls = <<>> THEN <<>> ELSE Head(ls) \o Join(Tail(ls))

\* str.splitlines(keepends=True)
RECURSIVE SplitLines(_)
SplitLines(s) ==
    IF s = <<>> THEN <<>>
    ELSE IF \E p \in 1..Len(s) : s[p] = "\n"
         THEN LET p == CHOOSE p \in 1..Len(s) :
                           s[p] = "\n" /\ \A q \in 1..(p - 1) : s[q] # "\n"
              IN <<SubSeq(s, 1, p)>> \o SplitLines(SubSeq(s, p + 1, Len(s)))
         ELSE <<s>>

Count(s, c) == Cardinality({p \in 1..Len(s) : s[p] = c})

Contains(s, c) == \E p \in 1..Len(s) : s[p] = c

Spaces(n) == [p \in 1..n |-> " "]

Without(s, c) ==
    LET RECURSIVE W(_)
        W(t) == IF t = <<>> THEN <<>>
                ELSE IF Head(t) = c THEN W(Tail(t)) ELSE <<Head(t)>> \o W(Tail(t))
    IN W(s)

----------------------------------------------------------------------------
(* remove_flag_definition *)

\* first position >= p of s that holds no whitespace, or Len(s) + 1
SkipWs(s, p) ==
    IF \E q \in p..Len(s) : ~IsSpace(s[q])
    THEN CHOOSE q \in p..Len(s) : ~IsSpace(s[q]) /\ \A r \in p..(q - 1) : IsSpace(s[r])
    ELSE Len(s) + 1

\* flag_pattern = F\s*=\s*FeatureFlag\([^)]*\)  matched at position p
PatternAt(s, p) ==
    /\ s[p] = "F"
    /\ LET e == SkipWs(s, p + 1)
       IN /\ e <= Len(s)
          /\ s[e] = "="
          /\ LET c == SkipWs(s, e + 1)
             IN /\ c + 1 <= Len(s)
                /\ s[c] = "K"
                /\ s[c + 1] = "("
                /\ \E r \in (c + 2)..Len(s) : s[r] = ")"

\* re.search(flag_pattern, s): the pattern is not anchored
FlagPatternSearch(s) == \E p \in 1..Len(s) : PatternAt(s, p)

\* 'FeatureFlag(' in line
HasCtorCall(line) == \E p \in 1..(Len(line) - 1) : line[p] = "K" /\ line[p + 1] = "("

\* line.count('(') - line.count(')')
ParenDelta(line) == Count(line, "(") - Count(line, ")")

\* the inner while loop: [i, full_definition] when it stops
RECURSIVE Lookahead(_, _, _, _)
Lookahead(ls, i, nested_level, full_definition) ==
    IF i < Len(ls) /\ nested_level > 0
    THEN Lookahead(ls, i + 1, nested_level + ParenDelta(ls[i + 1]),
                   full_definition \o ls[i + 1])
    ELSE [i |-> i, full_definition |-> full_definition]

\* the outer while loop from index i (0-based) with the output so far
RECURSIVE ScanLines(_, _, _, _)
ScanLines(ls, i, out, mod) ==
    IF ~(i < Len(ls)) THEN [output_lines |-> out, modified |-> mod]
    ELSE LET line == ls[i + 1] IN
         IF IsBlank(line) THEN ScanLines(ls, i + 1, Append(out, line), mod)
         ELSE IF Contains(line, "F")
         THEN IF FlagPatternSearch(line) THEN ScanLines(ls, i + 1, out, TRUE)
              ELSE IF Contains(line, "=") /\ HasCtorCall(line)
              THEN LET la == Lookahead(ls, i + 1, ParenDelta(line), line) IN
                   IF FlagPatternSearch(Without(la.full_definition, "\n"))
                   THEN ScanLines(ls, la.i, out, TRUE)
                   ELSE ScanLines(ls, (la.i - 1) + 1, Append(out, line), mod)
              ELSE ScanLines(ls, i + 1, Append(out, line), mod)
         ELSE ScanLines(ls, i + 1, Append(out, line), mod)

\* re.sub(r'\n\n\n+', '\n\n', s): of a run of three or more newlines two stay
CollapseNewlines(s) ==
    LET RECURSIVE C(_)
        C(p) == IF p > Len(s) THEN <<>>
                ELSE IF p >= 3 /\ s[p] = "\n" /\ s[p - 1] = "\n" /\ s[p - 2] = "\n"
                     THEN C(p + 1)
                     ELSE <<s[p]>> \o C(p + 1)
    IN C(1)

remove_flag_definition(content) ==
    LET r == ScanLines(SplitLines(content), 0, <<>>, FALSE)
    IN [output_lines |-> r.output_lines,
        result |-> CollapseNewlines(Join(r.output_lines)),
        modified |-> r.modified]

----------------------------------------------------------------------------
(* ast.parse and LocationCollector, on the lines of the text *)

\* the characters of a line that are not whitespace
Toks(line) == Without(Without(line, " "), "\n")

IsIdentChar(c) == c \in {"F", "B"}

\* number of leading identifier characters of t
IdentLen(t) ==
    IF \A p \in 1..Len(t) : IsIdentChar(t[p]) THEN Len(t)
    ELSE (CHOOSE p \in 1..Len(t) :
             ~IsIdentChar(t[p]) /\ \A q \in 1..(p - 1) : IsIdentChar(t[q])) - 1

\* the header of an if statement:  if [not] <attribute name> : [body on the line]
IfHeader(t) ==
    LET neg == Len(t) >= 2 /\ t[2] = "not"
        a == PyFrom(t, IF neg THEN 2 ELSE 1)
        n == IdentLen(a)
    IN [ok |-> n >= 1 /\ Len(a) > n /\ a[n + 1] = ":",
        neg |-> neg,
        attr |-> SubSeq(a, 1, n),
        rest |-> PyFrom(a, n + 1)]

\* first index >= i of a line of L that is not blank, or Len(L) + 1
NextCode(L, i) ==
    IF \E j \in i..Len(L) : ~IsBlank(L[j])
    THEN CHOOSE j \in i..Len(L) : ~IsBlank(L[j]) /\ \A q \in i..(j - 1) : IsBlank(L[q])
    ELSE Len(L) + 1

\* bracket depth after the characters t, or -1 when t cannot be part of a
\* simple statement
RECURSIVE DepthAfter(_, _)
DepthAfter(t, depth) ==
    IF t = <<>> THEN depth
    ELSE IF Head(t) \notin {"S", "F", "B", "K", "=", "(", ")"} THEN -1
    ELSE IF Head(t) = "(" THEN DepthAfter(Tail(t), depth + 1)
    ELSE IF Head(t) = ")"
         THEN IF depth = 0 THEN -1 ELSE DepthAfter(Tail(t), depth - 1)
    ELSE DepthAfter(Tail(t), depth)

\* a simple statement whose text t begins on line j (1-based): the line it
\* ends on, following open brackets over line ends, or 0 for a syntax error
RECURSIVE SimpleEnd(_, _, _, _)
SimpleEnd(L, j, t, depth) ==
    LET d == DepthAfter(t, depth) IN
    IF d < 0 THEN 0
    ELSE IF d = 0 THEN j
    ELSE IF j + 1 > Len(L) THEN 0
    ELSE SimpleEnd(L, j + 1, Toks(L[j + 1]), d)

ParseError == [ok |-> FALSE, next |-> 0, last |-> 0, locs |-> <<>>]

\* FlagRecord with the end of the true branch taken one line too far
FlagRecordEndOffByOne(h, j, e, bs, be) ==
    IF h.attr # <<"F">> THEN <<>>
    ELSE IF h.neg
         THEN <<[if_start |-> j - 1, if_end |-> e, keep_body |-> FALSE]>>
         ELSE <<[if_start |-> j - 1, if_end |-> e,
                 true_branch_start |-> bs - 1, true_branch_end |-> be + 1,
                 keep_body |-> TRUE]>>

\* visit_If's record for an If node: lineno j, end_lineno e, body from line
\* bs (min stmt.lineno) to line be (max stmt.end_lineno)
FlagRecord(h, j, e, bs, be) ==
    IF h.attr # <<"F">> THEN <<>>
    ELSE IF h.neg
         THEN <<[if_start |-> j - 1, if_end |-> e, keep_body |-> FALSE]>>
         ELSE <<[if_start |-> j - 1, if_end |-> e,
                 true_branch_start |-> bs - 1, true_branch_end |-> be,
                 keep_body |-> TRUE]>>

\* The recursive-descent parse, one operator with three entries:
\*   "block"  the statements of one block, each at indentation d, from line i on
\*   "suite"  the indented block under a header on line i of indentation d
\*   "stmt"   one statement that starts on line i at indentation d; locations
\*            in the order visit_If appends them: the node, its body, its orelse
\* The result is [ok, next line, end_lineno of the last statement, locations].
RECURSIVE Parse(_, _, _, _)
Parse(entry, L, i, d) ==
    IF entry = "block"
    THEN LET j == NextCode(L, i) IN
         IF j > Len(L) THEN [ok |-> TRUE, next |-> j, last |-> 0, locs |-> <<>>]
         ELSE IF LStripLen(L[j]) < d
              THEN [ok |-> TRUE, next |-> j, last |-> 0, locs |-> <<>>]
         ELSE IF LStripLen(L[j]) > d THEN ParseError
         ELSE LET st == Parse("stmt", L, j, d) IN
              IF ~st.ok THEN ParseError
              ELSE LET r == Parse("block", L, st.next, d) IN
                   IF ~r.ok THEN ParseError
                   ELSE [ok |-> TRUE, next |-> r.next,
                         last |-> IF r.last = 0 THEN st.last ELSE r.last,
                         locs |-> st.locs \o r.locs]
    ELSE IF entry = "suite"
    THEN LET b == NextCode(L, i + 1) IN
         IF b > Len(L) \/ LStripLen(L[Min(b, Len(L))]) <= d THEN ParseError
         ELSE Parse("block", L, b, LStripLen(L[b]))
    ELSE LET t == Toks(L[i]) IN
         IF t[1] = "if"
         THEN LET h == IfHeader(t) IN
              IF ~h.ok THEN ParseError
              ELSE LET inline == h.rest # <<>>
                       ie == SimpleEnd(L, i, h.rest, 0)
                       blk == IF inline
                              THEN [ok |-> ie # 0, next |-> ie + 1, last |-> ie,
                                    locs |-> <<>>]
                              ELSE Parse("suite", L, i, d)
                       bs == IF inline THEN i ELSE NextCode(L, i + 1)
                   IN IF ~blk.ok THEN ParseError
                      ELSE LET e == NextCode(L, blk.next)
                               hasElse == /\ e <= Len(L)
                                          /\ LStripLen(L[Min(e, Len(L))]) = d
                                          /\ Toks(L[Min(e, Len(L))]) = <<"else", ":">>
                               els == IF hasElse THEN Parse("suite", L, e, d) ELSE blk
                           IN IF ~els.ok THEN ParseError
                              ELSE [ok |-> TRUE, next |-> els.next, last |-> els.last,
                                    locs |-> FlagRecord(h, i, els.last, bs, blk.last)
                                             \o blk.locs
                                             \o (IF hasElse THEN els.locs ELSE <<>>)]
         ELSE LET e == SimpleEnd(L, i, t, 0) IN
              IF e = 0 THEN ParseError
              ELSE [ok |-> TRUE, next |-> e + 1, last |-> e, locs |-> <<>>]

\* ast.parse(source) followed by collector.visit(tree)
Collect(text) == Parse("block", SplitLines(text), 1, 0)

----------------------------------------------------------------------------
(* adjust_indentation and clean_flag_usage *)

adjust_indentation(ls, target_indent) ==
    IF ls = <<>> THEN ls
    ELSE IF \A p \in 1..Len(ls) : IsBlank(ls[p]) THEN ls
    ELSE LET first == ls[CHOOSE p \in 1..Len(ls) :
                            ~IsBlank(ls[p]) /\ \A q \in 1..(p - 1) : IsBlank(ls[q])]
             current_indent == get_indent(first)
             min_indent_length == Len(current_indent)
         IN IF current_indent = target_indent THEN ls
            ELSE [p \in 1..Len(ls) |->
                     IF ~IsBlank(ls[p])
                     THEN target_indent \o PyFrom(ls[p], min_indent_length)
                     ELSE ls[p]]

\* the lines the loop body puts in place of lines[if_start:if_end]
Replacement(ls, loc) ==
    IF loc.keep_body
    THEN adjust_indentation(
             PySlice(ls, loc.true_branch_start, loc.true_branch_end),
             get_indent(ls[loc.if_start + 1]))
    ELSE <<>>

\* one iteration of the loop over reversed(collector.locations)
ApplyLoc(ls, loc) == PySplice(ls, loc.if_start, loc.if_end, Replacement(ls, loc))

\* the loop from record n of locations down to record 1
RECURSIVE ApplyFrom(_, _, _)
ApplyFrom(ls, locs, n) ==
    IF n = 0 THEN ls ELSE ApplyFrom(ApplyLoc(ls, locs[n]), locs, n - 1)

\* text and modified are the pair returned; error tells that the except
\* branch ran (the message printed)
clean_flag_usage(text) ==
    LET c == Collect(text) IN
    IF ~c.ok THEN [text |-> text, modified |-> FALSE, error |-> TRUE]
    ELSE IF c.locs = <<>> THEN [text |-> text, modified |-> FALSE, error |-> FALSE]
    ELSE [text |-> Join(ApplyFrom(SplitLines(text), c.locs, Len(c.locs))),
          modified |-> TRUE, error |-> FALSE]

----------------------------------------------------------------------------
(* Usage cleaning of one file: a file is typed line by line, cleaned, and  *)
(* the result is cleaned once more.                                        *)

NoFile == <<"absent">>

UsageBodies ==
    { <<"S">>,
      <<"if", "F", ":">>,
      <<"if", "not", "F", ":">>,
      <<"if", "F", ":", "S">>,
      <<"else", ":">> }

UsageLines ==
    { Spaces(n) \o b \o <<"\n">> : n \in 0..MaxIndent, b \in UsageBodies }
        \cup { <<"\n">> }

IdleDir ==
    /\ disk = <<>> /\ bak = <<>> /\ orig = <<>> /\ isFlags = <<>>
    /\ create_backup = FALSE /\ idx = 0 /\ total_files = 0 /\ modified_files = 0
    /\ outcome = <<>>

IdleUsage ==
    /\ lines = <<>> /\ locations = <<>> /\ k = 0
    /\ cleaned2 = <<>> /\ modified2 = FALSE

InitUsage ==
    /\ source = <<>> /\ pc = "edit"
    /\ cleaned = <<>> /\ modified = FALSE /\ output_lines = <<>>
    /\ IdleUsage /\ IdleDir

\* The files typed start at the margin and deepen their indentation by one
\* space, and only under a header (a line that ends in a colon); a file not
\* of this shape is an IndentationError for ast.parse whatever else it holds.
OpensBlock(line) == LET t == Toks(line) IN t # <<>> /\ t[Len(t)] = ":"

CanFollow(text, l) ==
    LET L == SplitLines(text)
        j == IF \E q \in 1..Len(L) : ~IsBlank(L[q])
             THEN CHOOSE q \in 1..Len(L) :
                      ~IsBlank(L[q]) /\ \A r \in (q + 1)..Len(L) : IsBlank(L[r])
             ELSE 0
    IN IsBlank(l)
       \/ IF j = 0 THEN LStripLen(l) = 0
          ELSE LStripLen(l) <= LStripLen(L[j]) + (IF OpensBlock(L[j]) THEN 1 ELSE 0)

TypeUsageLine ==
    /\ pc = "edit"
    /\ Count(source, "\n") < MaxLines
    /\ \E l \in UsageLines : CanFollow(source, l) /\ source' = source \o l
    /\ UNCHANGED <<pc, cleaned, modified, output_lines, usageVars, dirVars>>

\* clean_flag_usage up to its loop: parse, collect, split
StartClean ==
    /\ pc = "edit"
    /\ \E c \in {Collect(source)} :
         IF c.ok /\ c.locs # <<>>
         THEN /\ pc' = "loop"
              /\ lines' = SplitLines(source)
              /\ locations' = c.locs
              /\ k' = Len(c.locs)
              /\ UNCHANGED <<cleaned, modified>>
         ELSE /\ pc' = "done"
              /\ cleaned' = source
              /\ modified' = FALSE
              /\ UNCHANGED <<lines, locations, k>>
    /\ UNCHANGED <<source, output_lines, cleaned2, modified2, dirVars>>

\* one iteration over reversed(collector.locations); the return after the last
ApplyStep ==
    /\ pc = "loop"
    /\ k > 0
    /\ lines' = ApplyLoc(lines, locations[k])
    /\ k' = k - 1
    /\ IF k' = 0
       THEN pc' = "done" /\ cleaned' = Join(lines') /\ modified' = TRUE
       ELSE UNCHANGED <<pc, cleaned, modified>>
    /\ UNCHANGED <<source, locations, output_lines, cleaned2, modified2, dirVars>>

\* the transform run again on what the first run left in the file
SecondPass ==
    /\ pc = "done"
    /\ \E r \in {clean_flag_usage(cleaned)} :
         cleaned2' = r.text /\ modified2' = r.modified
    /\ pc' = "done2"
    /\ UNCHANGED <<source, lines, locations, k, cleaned, modified, output_lines, dirVars>>

NextUsage == TypeUsageLine \/ StartClean \/ ApplyStep \/ SecondPass

SpecUsage == InitUsage /\ [][NextUsage]_vars

----------------------------------------------------------------------------
(* Declaration removal from one file *)

DeclLines ==
    { <<"\n">>,
      <<"S", "\n">>,
      <<"F", "=", "K", "(", ")", "\n">>,
      <<" ", "F", " ", "=", " ", "K", "(", "S", ")", "\n">>,
      <<"F", "=", "K", "(", "\n">>,
      <<"F", "=", "K", "(", "S", "(", "\n">>,
      <<"F", "=", "K", "(", "S", "(", "S", ")", "\n">>,
      <<" ", "S", "\n">>,
      <<")", "\n">>,
      <<")", ")", "\n">>,
      <<"B", "F", "=", "K", "(", ")", "\n">>,
      <<"F", "B", "=", "K", "(", ")", "\n">>,
      <<"F", "B", "=", "K", "(", "\n">> }

InitDecl == InitUsage

TypeDeclLine ==
    /\ pc = "edit"
    /\ Count(source, "\n") < MaxDeclLines
    /\ \E l \in DeclLines : source' = source \o l
    /\ UNCHANGED <<pc, cleaned, modified, output_lines, usageVars, dirVars>>

RemoveDefinition ==
    /\ pc = "edit"
    /\ \E r \in {remove_flag_definition(source)} :
         /\ output_lines' = r.output_lines
         /\ cleaned' = r.result
         /\ modified' = r.modified
    /\ pc' = "done"
    /\ UNCHANGED <<source, usageVars, dirVars>>

NextDecl == TypeDeclLine \/ RemoveDefinition

SpecDecl == InitDecl /\ [][NextDecl]_vars

----------------------------------------------------------------------------
(* process_directory over NumFiles matching files, process_file step by    *)
(* step: read, declaration removal, usage cleanup, backup, write. Each filesystem step may raise,   *)
(* and the process may be killed between any two steps.                    *)

Paths == 1..NumFiles

SampleTexts ==
    { \* no flag anywhere
      <<"S", "\n">>,
      \* a guarded block
      <<"if", "F", ":", "\n", " ", "S", "\n">>,
      \* a guard with its body on the same line
      <<"if", "F", ":", "S", "\n">>,
      \* a declaration and a guarded block
      <<"F", "=", "K", "(", ")", "\n", "if", "F", ":", "\n", " ", "S", "\n">>,
      \* a block that holds nothing but the declaration
      <<"if", "B", ":", "\n", " ", "F", "=", "K", "(", ")", "\n">>,
      \* a file that does not parse
      <<"else", ":", "\n">> }

NoOutcome ==
    [done |-> FALSE, ret |-> FALSE, io_error |-> "none", parse_error |-> FALSE,
     decl_modified |-> FALSE, write_begun |-> FALSE]

InitDir ==
    /\ disk \in [Paths -> SampleTexts]
    /\ orig = disk
    /\ bak = [f \in Paths |-> NoFile]
    /\ isFlags \in [Paths -> BOOLEAN]
    /\ create_backup \in BOOLEAN
    /\ idx = 1
    /\ total_files = 0 /\ modified_files = 0
    /\ outcome = [f \in Paths |-> NoOutcome]
    /\ pc = "read"
    /\ source = <<>> /\ cleaned = <<>> /\ modified = FALSE /\ output_lines = <<>>
    /\ IdleUsage

\* AfterTransform without the backup branch
AfterTransformNoBackup(mod, backup) == IF mod THEN "write" ELSE "return"

\* where process_file goes after the transform
AfterTransform(mod, backup) ==
    IF mod THEN (IF backup THEN "backup" ELSE "write") ELSE "return"

\* CountModified without the test of what process_file returned
CountModifiedAlways(n, ret) == n + 1

\* if process_file(...): modified_files += 1
CountModified(n, ret) == IF ret THEN n + 1 ELSE n

\* process_file returns ret; the loop of process_directory counts the file
\* and goes on to the next
Return(ret, o) ==
    /\ outcome' = [outcome EXCEPT ![idx] = [o EXCEPT !.done = TRUE, !.ret = ret]]
    /\ modified_files' = CountModified(modified_files, ret)
    /\ total_files' = total_files + 1
    /\ idx' = idx + 1
    /\ pc' = IF idx + 1 > NumFiles THEN "finished" ELSE "read"

Read ==
    /\ pc = "read"
    /\ source' = disk[idx]
    /\ modified' = FALSE
    /\ pc' = "transform"
    /\ UNCHANGED <<cleaned, output_lines, usageVars, disk, bak, orig, isFlags,
                   create_backup, idx, total_files, modified_files, outcome>>

\* open(file_path, 'r') or f.read() raises
ReadFails ==
    /\ pc = "read"
    /\ Return(FALSE, [outcome[idx] EXCEPT !.io_error = "read"])
    /\ UNCHANGED <<source, cleaned, modified, output_lines, usageVars, disk, bak,
                   orig, isFlags, create_backup>>

\* lines 197-200: the declaration remover, on a declarations file only
RemoveDeclStep ==
    /\ pc = "transform"
    /\ IF isFlags[idx]
       THEN \E r \in {remove_flag_definition(source)} :
              /\ cleaned' = r.result
              /\ modified' = r.modified
              /\ outcome' = [outcome EXCEPT ![idx].decl_modified = r.modified]
       ELSE UNCHANGED <<cleaned, modified, outcome>>
    /\ pc' = "usage"
    /\ UNCHANGED <<source, output_lines, usageVars, disk, bak, orig, isFlags,
                   create_backup, idx, total_files, modified_files>>

\* the text line 203 hands to clean_flag_usage
UsageInput == IF ~modified THEN source ELSE cleaned

\* lines 202-206 and 218: the usage cleanup, then the decision to write
UsageStep ==
    /\ pc = "usage"
    /\ \E u \in {clean_flag_usage(UsageInput)} :
         \E to \in {AfterTransform(modified \/ u.modified, create_backup)} :
           /\ cleaned' = u.text
           /\ modified' = (modified \/ u.modified)
           /\ IF to = "return"
              THEN Return(FALSE, [outcome[idx] EXCEPT !.parse_error = u.error])
              ELSE /\ pc' = to
                   /\ outcome' = [outcome EXCEPT ![idx].parse_error = u.error]
                   /\ UNCHANGED <<idx, total_files, modified_files>>
    /\ UNCHANGED <<source, output_lines, usageVars, disk, bak, orig, isFlags,
                   create_backup>>

\* shutil.copy2(file_path, backup_path)
Backup ==
    /\ pc = "backup"
    /\ bak' = [bak EXCEPT ![idx] = disk[idx]]
    /\ pc' = "write"
    /\ UNCHANGED <<source, cleaned, modified, output_lines, usageVars, disk, orig,
                   isFlags, create_backup, idx, total_files, modified_files, outcome>>

BackupFails ==
    /\ pc = "backup"
    /\ Return(FALSE, [outcome[idx] EXCEPT !.io_error = "backup"])
    /\ UNCHANGED <<source, cleaned, modified, output_lines, usageVars, disk, bak,
                   orig, isFlags, create_backup>>

\* open(file_path, 'w') and f.write(cleaned_source)
Write ==
    /\ pc = "write"
    /\ disk' = [disk EXCEPT ![idx] = cleaned]
    /\ Return(TRUE, [outcome[idx] EXCEPT !.write_begun = TRUE])
    /\ UNCHANGED <<source, cleaned, modified, output_lines, usageVars, bak, orig,
                   isFlags, create_backup>>

\* open(..., 'w') raises and leaves the file, or the write raises after the
\* open has truncated it
WriteFails ==
    /\ pc = "write"
    /\ \E left \in {disk[idx], <<>>} : disk' = [disk EXCEPT ![idx] = left]
    /\ Return(FALSE, [outcome[idx] EXCEPT !.io_error = "write", !.write_begun = TRUE])
    /\ UNCHANGED <<source, cleaned, modified, output_lines, usageVars, bak, orig,
                   isFlags, create_backup>>

\* the process dies between two steps
Crash ==
    /\ pc \in {"read", "transform", "usage", "backup", "write"}
    /\ pc' = IF pc = "write" THEN "crashed_before_write" ELSE "crashed"
    /\ UNCHANGED <<source, cleaned, modified, output_lines, usageVars, dirVars>>

NextDir ==
    \/ Read \/ ReadFails \/ RemoveDeclStep \/ UsageStep \/ Backup \/ BackupFails
    \/ Write \/ WriteFails \/ Crash

SpecDir == InitDir /\ [][NextDir]_vars

----------------------------------------------------------------------------
(* Properties of the usage cleanup (SpecUsage) *)

OriginalLines == SplitLines(source)

\* C1: running the transform again on the output of the first run gives the
\* same text and reports no modification.
C1_Idempotence == pc = "done2" => (cleaned2 = cleaned /\ ~modified2)

\* a file with one flag-guarded conditional, a direct check, after the rewrite
OneKeptConditional ==
    /\ pc \in {"done", "done2"}
    /\ modified
    /\ Len(locations) = 1
    /\ locations[1].keep_body

\* the then-branch lines of loc moved from their own indentation to the
\* guard's, every character that is not whitespace kept
ReindentedBody(L, loc) ==
    LET body == PySlice(L, loc.true_branch_start, loc.true_branch_end)
        guard == get_indent(L[loc.if_start + 1])
        own == LStripLen(L[loc.true_branch_start + 1])
    IN [p \in 1..Len(body) |->
           IF IsBlank(body[p]) THEN body[p] ELSE guard \o PyFrom(body[p], own)]

\* C2: for a conditional guarded by a direct flag check the output holds, in
\* place of the construct span, exactly the then-branch lines re-indented to
\* the guard's indentation; the guard line is gone, the else branch is gone,
\* and every line outside the span is unchanged.
C2_KeepBodyRewrite ==
    OneKeptConditional =>
        LET L == OriginalLines
            loc == locations[1]
            kept == ReindentedBody(L, loc)
        IN /\ SplitLines(cleaned) =
                  PySlice(L, 0, loc.if_start) \o kept \o PyFrom(L, loc.if_end)
           /\ \A p \in 1..Len(kept) : kept[p] # L[loc.if_start + 1]
           /\ \A p \in 1..Len(kept) :
                  Toks(kept[p]) = Toks(L[loc.true_branch_start + p])

\* C7: when a record is about to be applied, its construct span and its body
\* span still hold the lines they held in the original file.
C7_NonInterference ==
    (pc = "loop" /\ k > 0) =>
        LET loc == locations[k] IN
        /\ loc.if_end <= Len(lines)
        /\ PySlice(lines, loc.if_start, loc.if_end) =
               PySlice(OriginalLines, loc.if_start, loc.if_end)
        /\ loc.keep_body =>
               PySlice(lines, loc.true_branch_start, loc.true_branch_end) =
                   PySlice(OriginalLines, loc.true_branch_start, loc.true_branch_end)

Collected == pc \in {"loop", "done", "done2"} /\ locations # <<>>

\* the lines the rewriter emits for the record about to be applied do not
\* outnumber the lines of its body span
EmitsNoMoreThanBody ==
    (pc = "loop" /\ k > 0 /\ locations[k].keep_body) =>
        Len(Replacement(lines, locations[k])) <=
            locations[k].true_branch_end - locations[k].true_branch_start

----------------------------------------------------------------------------
(* Properties of the declaration remover (SpecDecl) *)

\* F stands at position p of line as a whole identifier
ExactNameAt(line, p) ==
    /\ line[p] = "F"
    /\ (p = 1 \/ ~IsIdentChar(line[p - 1]))
    /\ (p = Len(line) \/ ~IsIdentChar(line[p + 1]))

NamesFlag(line) == \E p \in 1..Len(line) : ExactNameAt(line, p)

\* C3: cleaning flag F matches, removes or rewrites nothing that belongs to a
\* flag whose name only contains F: a file in which F never occurs as a whole
\* name comes out line for line as it went in, unmodified.
C3_ExactNameMatching ==
    (pc = "done" /\ \A i \in 1..Len(OriginalLines) : ~NamesFlag(OriginalLines[i])) =>
        (output_lines = OriginalLines /\ ~modified)

\* sum of the parenthesis balance of lines a..b of L
RECURSIVE Balance(_, _, _)
Balance(L, a, b) == IF a > b THEN 0 ELSE ParenDelta(L[a]) + Balance(L, a + 1, b)

\* lines i..j of L are a multi-line declaration of the flag: line i opens it
\* and the running balance first returns to zero on line j
MultiLineDeclaration(L, i, j) ==
    /\ i < j /\ j <= Len(L)
    /\ Len(Toks(L[i])) >= 4
    /\ SubSeq(Toks(L[i]), 1, 4) = <<"F", "=", "K", "(">>
    /\ \A m \in i..(j - 1) : Balance(L, i, m) > 0
    /\ Balance(L, i, j) = 0

\* C6: a multi-line declaration of the flag is deleted from its first line
\* through the line where the running balance first returns to zero, no fewer
\* lines and no more (stated for files whose other lines do not hold the flag).
C6_DeclarationBalance ==
    pc = "done" =>
        \A i, j \in 1..Len(OriginalLines) :
            ( /\ MultiLineDeclaration(OriginalLines, i, j)
              /\ \A m \in (1..Len(OriginalLines)) \ (i..j) :
                     ~Contains(OriginalLines[m], "F") )
            => output_lines = SubSeq(OriginalLines, 1, i - 1)
                                \o SubSeq(OriginalLines, j + 1, Len(OriginalLines))

\* line i starts a lookahead: flag name, '=' and 'FeatureFlag(' with more
\* parentheses opened than closed, and no single-line match
StartsLookahead(line) ==
    /\ Contains(line, "F") /\ Contains(line, "=") /\ HasCtorCall(line)
    /\ ParenDelta(line) > 0
    /\ ~FlagPatternSearch(line)

\* C9: when a lookahead starts and the accumulated text does not match the
\* declaration pattern, the first line and the lines read during the lookahead
\* all stay, in order, and modified is not set (stated for files in which the
\* pattern matches nowhere, so that no line is to be deleted at all, and in
\* which the parentheses opened on the first line are closed further down).
C9_FailedLookahead ==
    ( /\ pc = "done"
      /\ ~FlagPatternSearch(Without(source, "\n"))
      /\ \E i, j \in 1..Len(OriginalLines) :
             /\ StartsLookahead(OriginalLines[i])
             /\ i < j
             /\ Balance(OriginalLines, i, j) = 0 )
    => (output_lines = OriginalLines /\ ~modified)

\* C10: lines that do not hold the flag name, runs of blank lines among them,
\* are copied through unchanged: a file that never mentions the flag comes
\* out as it went in.
C10_BlankRunsKept ==
    (pc = "done" /\ ~Contains(source, "F")) => cleaned = source

----------------------------------------------------------------------------
(* Properties of process_file and process_directory (SpecDir) *)

Returned(f) == outcome[f].done
ReturnedTrue == {f \in Paths : outcome[f].done /\ outcome[f].ret}

Totals ==
    /\ total_files = NumFiles
    /\ modified_files = Cardinality(ReturnedTrue)
    /\ \A f \in Paths : Returned(f)

C5_BackupBeforeWrite ==
    \A f \in Paths :
        /\ create_backup =>
               /\ (idx = f /\ pc \in {"write", "crashed_before_write"})
                      => (bak[f] = orig[f] /\ disk[f] = orig[f])
               /\ outcome[f].write_begun => bak[f] = orig[f]
               /\ disk[f] # orig[f] => bak[f] = orig[f]
        /\ (outcome[f].done /\ ~outcome[f].ret /\ outcome[f].io_error = "none")
               => (bak[f] = NoFile /\ disk[f] = orig[f])

\* a file has been rewritten with its backup in place, and the run was killed
\* between the backup and the write of a later file
C5_Witness ==
    /\ create_backup
    /\ pc = "crashed_before_write"
    /\ \E f \in Paths :
           /\ outcome[f].ret
           /\ disk[f] # orig[f]
           /\ bak[f] = orig[f]

====
